---- MODULE Spec2Model ----
(***************************************************************************)
(* State-machine model of the two login scripts of meetri/openclaw-skills  *)
(* (att_login.py and certify_login.py): one login run, from                *)
(* get_credentials() to sys.exit(), together with the external actor that  *)
(* supplies the MFA code through the code file.                            *)
(*                                                                         *)
(* Time: `now` is the time elapsed since `start = time.time()` of the wait *)
(* loop.  time.sleep(2) lasts exactly PollInterval; every other statement  *)
(* of the loop takes no time.  The clock advances in unit ticks while the  *)
(* loop sleeps, and the actor may act between any two ticks or steps.      *)
(***************************************************************************)
EXTENDS Integers, Sequences, FiniteSets, TLC

\* ---------------------------------------------------------------- bounds
MaxTimeout == 4      \* MFA_TIMEOUT ranges over 0..MaxTimeout
MaxLen == 2          \* longest text the actor writes to the code file
MaxDepth == 3        \* components of the output directory's path
MaxRuns == 2         \* starts of a script in a row
MaxBills == 3        \* downloads the site delivers in one run
MaxAccounts == 2     \* account tiles on the overview page
MaxRows == 2         \* bill rows on one page of the bill history
MaxMonths == 4       \* months_back ranges over 1..MaxMonths
MaxItems == 2        \* longest list of line items
MaxAmount == 2       \* amounts range over 0..MaxAmount
MaxLimit == 3        \* monthly_limit ranges over 0..MaxLimit
MaxPages == 2        \* pages of one account's bill history

\* ------------------------------------------------------ program constants
PollInterval == 2    \* time.sleep(2) of the wait loop
DaysBack == 30       \* timedelta(days=(month_offset + 1) * 30)

\* -------------------------------------------------------------- alphabet
Chars == {" ", "1"}
IsSpace(ch) == ch = " "

Texts == UNION {[1..n -> Chars] : n \in 0..MaxLen}

\* The code file does not exist / the loop variable `code` is None.
NoFile == <<"<absent>">>
None == <<"<None>">>

\* str.strip(): drop leading and trailing whitespace, keep the inside.
RECURSIVE LStrip(_)
LStrip(s) == IF s = <<>> THEN s
             ELSE IF IsSpace(Head(s)) THEN LStrip(Tail(s)) ELSE s

RECURSIVE RStrip(_)
RStrip(s) == IF s = <<>> THEN s
             ELSE IF IsSpace(s[Len(s)]) THEN RStrip(SubSeq(s, 1, Len(s) - 1)) ELSE s

Strip(s) == RStrip(LStrip(s))

\* Python truthiness of `code` (None and "" are false).
Truthy(c) == c # None /\ c # <<>>

VARIABLES
  script,      \* "att" | "certify": which login script runs
  T,           \* MFA_TIMEOUT
  pc,          \* position of the run
  codeFile,    \* text of CODE_FILE, or NoFile
  fileOrigin,  \* how CODE_FILE came to its current state: "prior" (left by an
               \* earlier run), "early" / "waiting" (written by the actor
               \* before / after status MFA_CODE_SENT), "unlinked" (removed by
               \* this run), "none" (absent otherwise)
  statusFile,  \* text of STATUS_FILE ("" when it does not exist)
  statusLog,   \* the tokens status() wrote in this run, in order
  code,        \* the loop variable `code`
  codeOrigin,  \* fileOrigin of the text `code` was read from
  now,         \* time elapsed since `start`
  wake,        \* end of the current time.sleep(2)
  loop,        \* the wait loop: "none" (not reached), "running", or how it
               \* ended: "cond_false", "break", "raised"
  fileAtStart, \* the code file existed when `start` was taken
  clicks,      \* site-facing submissions performed so far
  typed,       \* what was typed into the code input
  excType,     \* type name of the exception being handled
  result,      \* return value of login(): "none" | "True" | "False"
  pwStops,     \* pw.stop() calls so far
  exitCode,    \* process exit code, -1 while running
  setupPrinted,\* get_credentials printed the setup instructions
  acted,       \* the actor wrote or removed the code file during this run
  waitOps,     \* operations of the actor while the wait loop runs: 0, 1, or
               \* 2 for two or more
  writeT       \* `now` at the actor's last write while the loop runs, -1 if none

\* The other programs of the repository have their own variables; a login
\* run leaves them alone.
VARIABLES
  browserOps   \* calls made so far on the Playwright driver and the browser
               \* it is attached to

VARIABLES
  cfgKey,      \* load_config: the key of cfg that is followed
  configFile,  \* value of cfgKey in CONFIG_FILE, Unset if the file or key is missing
  environ,     \* value of the environment variable of cfgKey, Unset if not set
  argv,        \* value of the command-line flag of cfgKey, Unset if not given
  cfg          \* effective value of cfgKey, Unset before load_config ran

Unset == <<"<unset>">>

cfgVars == <<cfgKey, configFile, environ, argv, cfg>>
ConfigIdle ==
  /\ cfgKey = "none" /\ configFile = Unset /\ environ = Unset
  /\ argv = Unset /\ cfg = Unset

VARIABLES
  fs,          \* mkdir: kind of each prefix of the output directory's path,
               \* "absent" | "dir" | "file"
  content,     \* names of the entries inside the output directory
  runs,        \* how many times the script was started
  mkdirErr     \* what the last mkdir raised, "none" if nothing

fsVars == <<fs, content, runs, mkdirErr>>
FsIdle == fs = <<>> /\ content = {} /\ runs = 0 /\ mkdirErr = "none"

VARIABLES
  ONLY_NEW,    \* att_download_bills.py: "--only-new" in sys.argv
  saveDir,     \* SAVE_DIR: for each file name "absent", "old" (a file of an
               \* earlier run) or "new" (saved by this run)
  accountsLeft,\* accounts main() still has to visit
  rowsLeft,    \* bill rows of the current page still to download
  filename,    \* dl.suggested_filename of the last download
  saved,       \* the list `saved` of the current account
  cancels,     \* dl.cancel() calls so far
  dlCount,     \* downloads the site delivered so far
  accounts,    \* len(accounts): the accounts discover_accounts() returned
  all_saved    \* len(all_saved): the accounts whose bills were downloaded

dlVars == <<ONLY_NEW, saveDir, accountsLeft, rowsLeft, filename, saved,
            cancels, dlCount, accounts, all_saved>>
DownloadIdle ==
  /\ ONLY_NEW = FALSE /\ saveDir = <<>> /\ accountsLeft = 0 /\ rowsLeft = 0
  /\ filename = "" /\ saved = <<>> /\ cancels = 0 /\ dlCount = 0
  /\ accounts = 0 /\ all_saved = 0

VARIABLES
  args,        \* certify_expenses.py: the parsed command line, with
               \* command, confirm, receipts (given or not) and report_id
  lastReportId,\* text of last_report_id.txt, stripped; "absent" if there is
               \* no file
  trace,       \* the cmd_ functions entered, the connect_browser() calls and
               \* the clicks on the submit control, in order
  ret,         \* return value of each cmd_ function: "none" | "True" | "False"
  success      \* `success` of main()

expVars == <<args, lastReportId, trace, ret, success>>
ExpenseIdle ==
  /\ args = <<>> /\ lastReportId = "absent" /\ trace = <<>>
  /\ ret = <<>> /\ success = "none"

VARIABLES
  today,         \* cmd_create_from_wallet: datetime.now(), as a day number
  monthly_limit, \* float(_cfg["monthly_limit"])
  line_items,    \* the amounts of _cfg["line_items"], in order
  months_back,   \* int(args.months_back or _cfg["months_back"])
  month_offset,  \* loop variable of `for month_offset in range(months_back)`
  item,          \* index in line_items of the item the inner loop is at
  month_key,     \* month_date.strftime("%Y-%m"), as 12 * year + month
  monthly_totals,\* the dict monthly_totals
  total,         \* the running total of all months
  forms,         \* <<month_key, amount>> of every item whose expense form
                 \* was opened and filled, in order
  saves          \* save_btn.click() calls so far

walletVars == <<today, monthly_limit, line_items, months_back, month_offset,
                item, month_key, monthly_totals, total, forms, saves>>
WalletIdle ==
  /\ today = 0 /\ monthly_limit = 0 /\ line_items = <<>> /\ months_back = 0
  /\ month_offset = 0 /\ item = 0 /\ month_key = 0 /\ monthly_totals = <<>>
  /\ total = 0 /\ forms = <<>> /\ saves = 0

VARIABLES
  billPages,   \* download_all_bills_for_current_account: for each page of the
               \* bill history its rows (the texts of its bills) and the page
               \* its Next link leads to, 0 if it has no Next link
  curPage,     \* the page the browser shows
  seen_bills,  \* the set seen_bills
  processed    \* the pages whose bills were downloaded, in order

pagesVars == <<billPages, curPage, seen_bills, processed>>
PagesIdle == billPages = <<>> /\ curPage = 0 /\ seen_bills = {} /\ processed = <<>>

otherVars == <<cfgVars, fsVars, dlVars, expVars, walletVars, pagesVars>>
OtherIdle ==
  /\ ConfigIdle /\ FsIdle /\ DownloadIdle /\ ExpenseIdle /\ WalletIdle
  /\ PagesIdle

loginVars == <<T, codeFile, fileOrigin, statusFile, statusLog, code,
               codeOrigin, now, wake, loop, fileAtStart, clicks, typed, excType,
               result, pwStops, setupPrinted, acted, waitOps, writeT>>

vars == <<script, pc, browserOps, exitCode, loginVars, otherVars>>

actorVars == <<codeFile, fileOrigin, acted, waitOps, writeT>>
loopVars == <<loop, fileAtStart>>
timeVars == <<now, wake>>

\* ------------------------------------------------------------------ Init
\* Before the run: the code file and the status file are whatever an earlier
\* run left behind.
Init ==
  /\ script \in {"att", "certify"}
  /\ T \in 0..MaxTimeout
  /\ pc = "start"
  /\ codeFile \in {NoFile} \cup Texts
  /\ fileOrigin = IF codeFile = NoFile THEN "none" ELSE "prior"
  /\ statusFile \in {"", "LOGGED_IN"}
  /\ statusLog = <<>>
  /\ code = None
  /\ codeOrigin = "none"
  /\ now = 0
  /\ wake = 0
  /\ loop = "none"
  /\ fileAtStart = FALSE
  /\ clicks = [username |-> 0, password |-> 0, request |-> 0, code |-> 0]
  /\ typed = None
  /\ excType = "none"
  /\ result = "none"
  /\ pwStops = 0
  /\ exitCode = -1
  /\ setupPrinted = FALSE
  /\ acted = FALSE
  /\ waitOps = 0
  /\ writeT = -1
  /\ browserOps = {}
  /\ OtherIdle

\* The variables of the login run while another program of the repository runs.
LoginIdle ==
  /\ T = 0 /\ codeFile = NoFile /\ fileOrigin = "none"
  /\ statusFile = "" /\ statusLog = <<>>
  /\ code = None /\ codeOrigin = "none"
  /\ now = 0 /\ wake = 0 /\ loop = "none" /\ fileAtStart = FALSE
  /\ clicks = [username |-> 0, password |-> 0, request |-> 0, code |-> 0]
  /\ typed = None /\ excType = "none" /\ result = "none"
  /\ pwStops = 0 /\ setupPrinted = FALSE
  /\ acted = FALSE /\ waitOps = 0 /\ writeT = -1

\* --------------------------------------------------------------- helpers
\* status(msg), for the tokens one step writes in a row.
status(msgs) ==
  /\ statusFile' = msgs[Len(msgs)]
  /\ statusLog' = statusLog \o msgs

Go(to, msgs, res, exc) ==
  /\ pc' = to
  /\ IF msgs = <<>> THEN UNCHANGED <<statusFile, statusLog>> ELSE status(msgs)
  /\ result' = res
  /\ excType' = exc

\* `return v` inside the try block: control passes to the finally clause.
Return(v, msgs) == Go("finally", msgs, v, excType)
\* An exception of type t raised inside the try block.
Raise(t, msgs) == Go("except", msgs, result, t)
Goto(to, msgs) == Go(to, msgs, result, excType)

Click(what) == clicks' = [clicks EXCEPT ![what] = @ + 1]

\* The position of the run relative to the MFA wait.
EarlyPcs == {"start", "unlink", "connect", "getpage", "navigate", "username",
             "password", "after_signin", "mfa_page"}
PollPcs == {"poll_check", "poll_exists", "poll_read", "poll_sleep"}
WaitPcs == {"wait_pre"} \cup PollPcs
Phase == IF pc \in EarlyPcs THEN "early" ELSE "waiting"

\* ------------------------------------------------------- external actor
\* The human or agent that writes (or removes) the code file, at any moment
\* until the wait loop is over.  After the loop the run neither reads nor
\* writes the code file, so what the actor does then changes nothing in the run.
ActorStep(newFile) ==
  /\ pc \in EarlyPcs \cup WaitPcs
  /\ acted' = TRUE
  /\ codeFile' = newFile
  /\ fileOrigin' = IF newFile = NoFile THEN "none" ELSE Phase
  /\ IF pc \in PollPcs
       THEN /\ waitOps' = IF waitOps = 0 THEN 1 ELSE 2
            /\ IF newFile = NoFile
                 THEN UNCHANGED writeT
                 ELSE writeT' = now
       ELSE UNCHANGED <<waitOps, writeT>>
  /\ UNCHANGED <<otherVars, script, T, pc, statusFile, statusLog, code, codeOrigin,
                 now, wake, loop, fileAtStart, clicks, typed, excType,
                 result, pwStops, browserOps, exitCode, setupPrinted>>

ActorWrite ==
  /\ pc \in EarlyPcs \cup WaitPcs
  /\ \E txt \in Texts : ActorStep(txt)

ActorDelete ==
  /\ codeFile # NoFile
  /\ ActorStep(NoFile)

\* ------------------------------------------------------------ login run
GetCredentials ==
  /\ pc = "start"
  /\ \E secret \in {"ok", "lookup_failed", "tool_missing", "empty_password", "no_user"} :
       CASE secret = "ok" ->
              /\ pc' = "unlink"
              /\ UNCHANGED <<exitCode, setupPrinted>>
         [] secret \in {"lookup_failed", "tool_missing"} ->
              \* except (CalledProcessError, FileNotFoundError): sys.exit(1)
              /\ pc' = "exited"
              /\ exitCode' = 1
              /\ setupPrinted' = TRUE
         [] OTHER ->
              \* ValueError is not caught: traceback, exit status 1
              /\ pc' = "exited"
              /\ exitCode' = 1
              /\ UNCHANGED setupPrinted
  /\ UNCHANGED <<otherVars, script, T, loopVars, statusFile, statusLog, code, codeOrigin,
                 clicks, typed, excType, result, pwStops, browserOps>>
  /\ UNCHANGED <<actorVars, timeVars>>

\* Variant of UnlinkCodeFile: the code file is left in place.
UnlinkSkipped ==
  /\ pc = "unlink"
  /\ pc' = "connect"
  /\ UNCHANGED <<otherVars, script, T, loopVars, statusFile, statusLog, code,
                 codeOrigin, clicks, typed, excType, result, pwStops, browserOps,
                 exitCode, setupPrinted>>
  /\ UNCHANGED <<actorVars, timeVars>>

\* CODE_FILE.unlink(missing_ok=True)
UnlinkCodeFile ==
  /\ pc = "unlink"
  /\ pc' = "connect"
  /\ codeFile' = NoFile
  /\ fileOrigin' = IF codeFile = NoFile THEN "none" ELSE "unlinked"
  /\ UNCHANGED <<otherVars, script, T, loopVars, statusFile, statusLog, code, codeOrigin,
                 clicks, typed, excType, result, pwStops, browserOps, exitCode,
                 setupPrinted, acted, waitOps, writeT>>
  /\ UNCHANGED timeVars

\* sync_playwright().start(); connect_over_cdp(CDP_URL)
ConnectBrowser ==
  /\ pc = "connect"
  /\ \E connected \in BOOLEAN :
       IF connected
         THEN /\ pc' = "getpage"
              /\ browserOps' = browserOps \cup {"connect_over_cdp"}
              /\ UNCHANGED <<pwStops, exitCode>>
         ELSE /\ pc' = "exited"
              /\ pwStops' = pwStops + 1
              /\ browserOps' = browserOps \cup {"connect_over_cdp", "stop"}
              /\ exitCode' = 1
  /\ UNCHANGED <<otherVars, script, T, loopVars, statusFile, statusLog, code, codeOrigin,
                 clicks, typed, excType, result, setupPrinted>>
  /\ UNCHANGED <<actorVars, timeVars>>

\* browser.contexts[0], ctx.pages[0] / ctx.new_page(), apply_stealth_sync:
\* outside the try block, so an exception here ends the process.
GetPage ==
  /\ pc = "getpage"
  /\ \E raises \in BOOLEAN :
       IF raises
         THEN pc' = "exited" /\ exitCode' = 1
         ELSE pc' = "navigate" /\ UNCHANGED exitCode
  /\ UNCHANGED <<otherVars, script, T, loopVars, statusFile, statusLog, code, codeOrigin,
                 clicks, typed, excType, result, pwStops, browserOps, setupPrinted>>
  /\ UNCHANGED <<actorVars, timeVars>>

\* What the steps in the try block before the wait loop leave alone.
PreWaitFrame ==
  /\ UNCHANGED <<otherVars, script, T, loopVars, code, codeOrigin, typed,
                 pwStops, browserOps, exitCode, setupPrinted>>
  /\ UNCHANGED <<actorVars, timeVars>>

\* status("NAVIGATING_TO_LOGIN"), page.goto, first look at the page.
Navigate ==
  /\ pc = "navigate"
  /\ \E site \in {"raises", "blocked", "blocked_raises", "logged_in", "login_form"} :
       CASE site = "raises" ->
              Raise("TimeoutError", <<"NAVIGATING_TO_LOGIN">>)
         [] site = "blocked" ->
              /\ script = "att"
              /\ Return("False", <<"NAVIGATING_TO_LOGIN", "ERROR_BLOCKED">>)
         [] site = "blocked_raises" ->
              \* the screenshot after status("ERROR_BLOCKED") fails
              /\ script = "att"
              /\ Raise("TimeoutError", <<"NAVIGATING_TO_LOGIN", "ERROR_BLOCKED">>)
         [] site = "logged_in" ->
              /\ script = "certify"
              /\ Return("True", <<"NAVIGATING_TO_LOGIN", "ALREADY_LOGGED_IN">>)
         [] OTHER ->
              Goto("username", <<"NAVIGATING_TO_LOGIN">>)
  /\ UNCHANGED clicks
  /\ PreWaitFrame

\* att: "Fill username" (lines 170-187).
EnterUsername ==
  /\ pc = "username"
  /\ script = "att"
  /\ \E form \in {"uid_raises", "uid_submitted", "uid_no_password", "prefilled",
                  "password_appears", "nothing_appears"} :
       CASE form = "uid_raises" ->
              \* typing or clicking Continue fails
              /\ Raise("TimeoutError", <<"ENTERING_USERNAME">>)
              /\ UNCHANGED clicks
         [] form = "uid_submitted" ->
              /\ Goto("password", <<"ENTERING_USERNAME", "USERNAME_SUBMITTED">>)
              /\ Click("username")
         [] form = "uid_no_password" ->
              \* wait_for_selector('input[type="password"]') times out
              /\ Raise("TimeoutError", <<"ENTERING_USERNAME", "USERNAME_SUBMITTED">>)
              /\ Click("username")
         [] form = "prefilled" ->
              /\ Goto("password", <<"ENTERING_USERNAME", "USERNAME_PREFILLED">>)
              /\ UNCHANGED clicks
         [] form = "password_appears" ->
              /\ Goto("password", <<"ENTERING_USERNAME">>)
              /\ UNCHANGED clicks
         [] OTHER ->
              /\ Raise("TimeoutError", <<"ENTERING_USERNAME">>)
              /\ UNCHANGED clicks
  /\ PreWaitFrame

\* certify: "Fill email" and "Click Next/Continue" (lines 144-157).
EnterEmail ==
  /\ pc = "username"
  /\ script = "certify"
  /\ \E form \in {"no_email_input", "next_clicked", "no_next_button"} :
       CASE form = "no_email_input" ->
              /\ Raise("TimeoutError", <<"ENTERING_EMAIL">>)
              /\ UNCHANGED clicks
         [] form = "next_clicked" ->
              /\ Goto("password", <<"ENTERING_EMAIL">>)
              /\ Click("username")
         [] OTHER ->
              /\ Goto("password", <<"ENTERING_EMAIL">>)
              /\ UNCHANGED clicks
  /\ PreWaitFrame

\* "Fill password" and the sign-in click.
EnterPassword ==
  /\ pc = "password"
  /\ \E form \in {"raises", "signed_in", "no_button"} :
       CASE form = "raises" ->
              \* no password input (certify), or typing / clicking fails
              /\ Raise("TimeoutError", <<"ENTERING_PASSWORD">>)
              /\ UNCHANGED clicks
         [] form = "signed_in" ->
              /\ Goto("after_signin", <<"ENTERING_PASSWORD", "SIGN_IN_CLICKED">>)
              /\ Click("password")
         [] OTHER ->
              \* certify only clicks the sign-in control if it finds one
              /\ script = "certify"
              /\ Goto("after_signin", <<"ENTERING_PASSWORD", "SIGN_IN_CLICKED">>)
              /\ UNCHANGED clicks
  /\ PreWaitFrame

\* Variant of AfterSignIn: --skip-mfa writes its status and the MFA flow runs anyway.
AfterSignInIgnoresSkip ==
  /\ pc = "after_signin"
  /\ \E site \in {"raises", "rate_limited", "rate_limited_raises", "blocked",
                  "logged_in", "logged_in_raises", "mfa"},
        skip_mfa \in BOOLEAN :
       CASE site = "raises" ->
              \* certify: screenshot; att: page.text_content
              Raise("TimeoutError", <<>>)
         [] site = "rate_limited" ->
              /\ script = "att"
              /\ Return("False", <<"ERROR_RATE_LIMITED_902">>)
         [] site = "rate_limited_raises" ->
              /\ script = "att"
              /\ Raise("TimeoutError", <<"ERROR_RATE_LIMITED_902">>)
         [] site = "blocked" ->
              /\ script = "att"
              /\ Return("False", <<"ERROR_BLOCKED">>)
         [] site = "logged_in" ->
              Return("True", <<"LOGGED_IN">>)
         [] site = "logged_in_raises" ->
              \* att takes a screenshot after status("LOGGED_IN")
              /\ script = "att"
              /\ Raise("TimeoutError", <<"LOGGED_IN">>)
         [] OTHER ->
              IF skip_mfa
                THEN Goto("mfa_page", <<"MFA_REQUIRED_BUT_SKIPPED">>)
                ELSE Goto("mfa_page", <<>>)
  /\ UNCHANGED clicks
  /\ PreWaitFrame

\* The checks between the sign-in click and the MFA flow.
AfterSignIn ==
  /\ pc = "after_signin"
  /\ \E site \in {"raises", "rate_limited", "rate_limited_raises", "blocked",
                  "logged_in", "logged_in_raises", "mfa"},
        skip_mfa \in BOOLEAN :
       CASE site = "raises" ->
              \* certify: screenshot; att: page.text_content
              Raise("TimeoutError", <<>>)
         [] site = "rate_limited" ->
              /\ script = "att"
              /\ Return("False", <<"ERROR_RATE_LIMITED_902">>)
         [] site = "rate_limited_raises" ->
              /\ script = "att"
              /\ Raise("TimeoutError", <<"ERROR_RATE_LIMITED_902">>)
         [] site = "blocked" ->
              /\ script = "att"
              /\ Return("False", <<"ERROR_BLOCKED">>)
         [] site = "logged_in" ->
              Return("True", <<"LOGGED_IN">>)
         [] site = "logged_in_raises" ->
              \* att takes a screenshot after status("LOGGED_IN")
              /\ script = "att"
              /\ Raise("TimeoutError", <<"LOGGED_IN">>)
         [] OTHER ->
              IF skip_mfa
                THEN Return("False", <<"MFA_REQUIRED_BUT_SKIPPED">>)
                ELSE Goto("mfa_page", <<>>)
  /\ UNCHANGED clicks
  /\ PreWaitFrame

\* att: "MFA flow" up to status("MFA_CODE_SENT") (lines 222-255).
AttRequestCode ==
  /\ pc = "mfa_page"
  /\ script = "att"
  /\ \E MFA_PHONE_HINT \in BOOLEAN,
        page \in {"raises", "no_option", "click_raises", "no_send_button", "sent"} :
       CASE page = "raises" ->
              /\ Raise("TimeoutError", <<"MFA_PAGE">>)
              /\ UNCHANGED clicks
         [] page = "no_option" ->
              /\ Return("False", <<"MFA_PAGE", IF MFA_PHONE_HINT
                                                  THEN "ERROR_NO_MFA_PHONE"
                                                  ELSE "ERROR_NO_MFA_OPTIONS">>)
              /\ UNCHANGED clicks
         [] page = "click_raises" ->
              /\ Raise("TimeoutError", <<"MFA_PAGE">>)
              /\ UNCHANGED clicks
         [] page = "no_send_button" ->
              /\ Return("False", <<"MFA_PAGE", "ERROR_NO_SEND_BUTTON">>)
              /\ UNCHANGED clicks
         [] OTHER ->
              /\ Goto("wait_pre", <<"MFA_PAGE", "MFA_CODE_SENT">>)
              /\ Click("request")
  /\ PreWaitFrame

\* certify: "MFA flow" up to status("MFA_CODE_SENT") (lines 186-206).
CertifyRequestCode ==
  /\ pc = "mfa_page"
  /\ script = "certify"
  /\ \E page \in {"raises", "sent", "no_send_control"} :
       CASE page = "raises" ->
              /\ Raise("TimeoutError", <<"MFA_PAGE">>)
              /\ UNCHANGED clicks
         [] page = "sent" ->
              /\ Goto("wait_pre", <<"MFA_PAGE", "MFA_CODE_SENT">>)
              /\ Click("request")
         [] OTHER ->
              \* no selector of the list matched: nothing is clicked
              /\ Goto("wait_pre", <<"MFA_PAGE", "MFA_CODE_SENT">>)
              /\ UNCHANGED clicks
  /\ PreWaitFrame

\* What the steps of the wait loop leave alone.
WaitFrame ==
  /\ UNCHANGED <<otherVars, script, T, clicks, typed, pwStops, browserOps, exitCode, setupPrinted>>
  /\ UNCHANGED actorVars

\* From status("MFA_CODE_SENT") to `start = time.time(); code = None`.
StartWait ==
  /\ pc = "wait_pre"
  /\ \E raises \in BOOLEAN :
       IF raises
         THEN /\ Raise("TimeoutError", <<>>)       \* the screenshot fails
              /\ UNCHANGED <<now, code, loop, fileAtStart>>
         ELSE /\ Goto("poll_check", <<>>)
              /\ now' = 0
              /\ code' = None
              /\ loop' = "running"
              /\ fileAtStart' = (codeFile # NoFile)
  /\ UNCHANGED <<wake, codeOrigin>>
  /\ WaitFrame

\* Variant of PollCheck: the loop condition never looks at the clock.
PollCheckForever ==
  /\ pc = "poll_check"
  /\ Goto("poll_exists", <<>>)
  /\ UNCHANGED <<now, wake, code, codeOrigin, loopVars>>
  /\ WaitFrame

\* while time.time() - start < MFA_TIMEOUT
PollCheck ==
  /\ pc = "poll_check"
  /\ Goto(IF now < T THEN "poll_exists" ELSE "after_wait", <<>>)
  /\ loop' = IF now < T THEN loop ELSE "cond_false"
  /\ UNCHANGED <<now, wake, code, codeOrigin, fileAtStart>>
  /\ WaitFrame

\* if CODE_FILE.exists()
PollExists ==
  /\ pc = "poll_exists"
  /\ IF codeFile # NoFile
       THEN Goto("poll_read", <<>>) /\ UNCHANGED wake
       ELSE Goto("poll_sleep", <<>>) /\ wake' = now + PollInterval
  /\ UNCHANGED <<now, code, codeOrigin, loopVars>>
  /\ WaitFrame

\* Variant of PollRead: the text is not stripped before it is tested.
PollReadNoStrip ==
  /\ pc = "poll_read"
  /\ IF codeFile = NoFile
       THEN /\ Raise("FileNotFoundError", <<>>)
            /\ loop' = "raised"
            /\ UNCHANGED <<code, codeOrigin, wake>>
       ELSE /\ code' = codeFile
            /\ codeOrigin' = fileOrigin
            /\ IF Truthy(codeFile)
                 THEN Goto("after_wait", <<>>) /\ loop' = "break" /\ UNCHANGED wake
                 ELSE Goto("poll_sleep", <<>>) /\ wake' = now + PollInterval
                                              /\ UNCHANGED loop
  /\ UNCHANGED <<now, fileAtStart>>
  /\ WaitFrame

\* code = CODE_FILE.read_text().strip(); if code: break
PollRead ==
  /\ pc = "poll_read"
  /\ IF codeFile = NoFile
       THEN \* the file went away after exists(): read_text raises
            /\ Raise("FileNotFoundError", <<>>)
            /\ loop' = "raised"
            /\ UNCHANGED <<code, codeOrigin, wake>>
       ELSE /\ code' = Strip(codeFile)
            /\ codeOrigin' = fileOrigin
            /\ IF Truthy(Strip(codeFile))
                 THEN Goto("after_wait", <<>>) /\ loop' = "break" /\ UNCHANGED wake
                 ELSE Goto("poll_sleep", <<>>) /\ wake' = now + PollInterval
                                              /\ UNCHANGED loop
  /\ UNCHANGED <<now, fileAtStart>>
  /\ WaitFrame

\* One unit of time passes inside time.sleep(2).
Tick ==
  /\ pc = "poll_sleep"
  /\ now < wake
  /\ now' = now + 1
  /\ UNCHANGED <<pc, statusFile, statusLog, result, excType, wake, code,
                 codeOrigin, loopVars>>
  /\ WaitFrame

\* time.sleep(2) returns.
PollWake ==
  /\ pc = "poll_sleep"
  /\ now = wake
  /\ Goto("poll_check", <<>>)
  /\ wake' = 0
  /\ UNCHANGED <<now, code, codeOrigin, loopVars>>
  /\ WaitFrame

\* Variant of PostWaitFrame: the code file is removed once it was consumed.
PostWaitFrameConsume ==
  /\ UNCHANGED <<otherVars, script, T, loopVars, code, codeOrigin, setupPrinted>>
  /\ codeFile' = NoFile
  /\ fileOrigin' = "none"
  /\ UNCHANGED <<acted, waitOps, writeT, timeVars>>

\* What the steps after the wait loop leave alone.
PostWaitFrame ==
  /\ UNCHANGED <<otherVars, script, T, loopVars, code, codeOrigin, setupPrinted>>
  /\ UNCHANGED <<actorVars, timeVars>>

\* Variant of MfaTimeout: the timeout is reported but login() returns True.
MfaTimeoutSucceeds ==
  /\ pc = "after_wait"
  /\ ~Truthy(code)
  /\ Return("True", <<"ERROR_MFA_TIMEOUT">>)
  /\ UNCHANGED <<clicks, typed, pwStops, browserOps, exitCode>>
  /\ PostWaitFrame

\* if not code: status("ERROR_MFA_TIMEOUT"); return False
MfaTimeout ==
  /\ pc = "after_wait"
  /\ ~Truthy(code)
  /\ Return("False", <<"ERROR_MFA_TIMEOUT">>)
  /\ UNCHANGED <<clicks, typed, pwStops, browserOps, exitCode>>
  /\ PostWaitFrame

\* "Enter code" and "Submit" up to status("MFA_SUBMITTED").
EnterMfaCode ==
  /\ pc = "after_wait"
  /\ Truthy(code)
  /\ \E page \in {"no_input", "no_input_raises", "raises", "submitted", "no_button"} :
       CASE page = "no_input" ->
              /\ Return("False", <<"ENTERING_MFA_CODE", "ERROR_NO_CODE_INPUT">>)
              /\ UNCHANGED <<clicks, typed>>
         [] page = "no_input_raises" ->
              /\ Raise("TimeoutError", <<"ENTERING_MFA_CODE", "ERROR_NO_CODE_INPUT">>)
              /\ UNCHANGED <<clicks, typed>>
         [] page = "raises" ->
              /\ Raise("TimeoutError", <<"ENTERING_MFA_CODE">>)
              /\ UNCHANGED <<clicks, typed>>
         [] page = "submitted" ->
              /\ Goto("verify", <<"ENTERING_MFA_CODE", "MFA_SUBMITTED">>)
              /\ typed' = code
              /\ Click("code")
         [] OTHER ->
              \* no visible submit button: the code is typed, nothing is clicked
              /\ Goto("verify", <<"ENTERING_MFA_CODE", "MFA_SUBMITTED">>)
              /\ typed' = code
              /\ UNCHANGED clicks
  /\ UNCHANGED <<pwStops, browserOps, exitCode>>
  /\ PostWaitFrame

\* The URL check after the code was submitted.
VerifyLogin ==
  /\ pc = "verify"
  /\ \E site \in {"logged_in", "logged_in_raises", "failed", "failed_raises"} :
       CASE site = "logged_in" -> Return("True", <<"LOGGED_IN">>)
         [] site = "logged_in_raises" -> Raise("TimeoutError", <<"LOGGED_IN">>)
         [] site = "failed" -> Return("False", <<"ERROR_LOGIN_FAILED">>)
         [] OTHER -> Raise("TimeoutError", <<"ERROR_LOGIN_FAILED">>)
  /\ UNCHANGED <<clicks, typed, pwStops, browserOps, exitCode>>
  /\ PostWaitFrame

\* status(f"ERROR_{type(e).__name__}")
ErrorToken(t) == IF t = "FileNotFoundError" THEN "ERROR_FileNotFoundError"
                 ELSE "ERROR_TimeoutError"

\* Variant of HandleException: the handler starts the login over.
HandleExceptionRetry ==
  /\ pc = "except"
  /\ Goto("navigate", <<ErrorToken(excType)>>)
  /\ UNCHANGED <<clicks, typed, pwStops, browserOps, exitCode>>
  /\ PostWaitFrame

\* except Exception as e: ... return False
HandleException ==
  /\ pc = "except"
  /\ Return("False", <<ErrorToken(excType)>>)
  /\ UNCHANGED <<clicks, typed, pwStops, browserOps, exitCode>>
  /\ PostWaitFrame

\* Variant of Finally: the browser is closed instead of detached from.
FinallyClosesBrowser ==
  /\ pc = "finally"
  /\ pc' = "main"
  /\ pwStops' = pwStops + 1
  /\ browserOps' = browserOps \cup {"close"}
  /\ UNCHANGED <<statusFile, statusLog, result, excType, clicks, typed, exitCode>>
  /\ PostWaitFrame

\* finally: pw.stop()
Finally ==
  /\ pc = "finally"
  /\ pc' = "main"
  /\ pwStops' = pwStops + 1
  /\ browserOps' = browserOps \cup {"stop"}
  /\ UNCHANGED <<statusFile, statusLog, result, excType, clicks, typed, exitCode>>
  /\ PostWaitFrame

\* Variant of MainExit: the result of login() is not passed to sys.exit.
MainExitZero ==
  /\ pc = "main"
  /\ pc' = "exited"
  /\ exitCode' = 0
  /\ UNCHANGED <<statusFile, statusLog, result, excType, clicks, typed, pwStops, browserOps>>
  /\ PostWaitFrame

\* sys.exit(0 if success else 1)
MainExit ==
  /\ pc = "main"
  /\ pc' = "exited"
  /\ exitCode' = IF result = "True" THEN 0 ELSE 1
  /\ UNCHANGED <<statusFile, statusLog, result, excType, clicks, typed, pwStops, browserOps>>
  /\ PostWaitFrame

Next ==
  \/ GetCredentials \/ UnlinkCodeFile \/ ConnectBrowser \/ GetPage
  \/ Navigate \/ EnterUsername \/ EnterEmail \/ EnterPassword \/ AfterSignIn
  \/ AttRequestCode \/ CertifyRequestCode
  \/ StartWait \/ PollCheck \/ PollExists \/ PollRead \/ Tick \/ PollWake
  \/ MfaTimeout \/ EnterMfaCode \/ VerifyLogin
  \/ HandleException \/ Finally \/ MainExit
  \/ ActorWrite \/ ActorDelete

Spec == Init /\ [][Next]_vars

TypeOK ==
  /\ script \in {"att", "certify"}
  /\ T \in 0..MaxTimeout
  /\ codeFile \in {NoFile} \cup Texts
  /\ code \in {None} \cup Texts
  /\ now \in 0..(MaxTimeout + PollInterval)
  /\ exitCode \in {-1, 0, 1}
  /\ result \in {"none", "True", "False"}

\* =========================================================== load_config
\* load_config() of att_login.py and certify_login.py, followed for one key
\* of cfg: every key goes through the same three steps (file, environment,
\* command line).  Values are tagged with their Python type.
Str(t) == <<"str", t>>
Num(n) == <<"int", n>>
ValueError == <<"ValueError">>

\* The keys of cfg that have an environment variable and a command-line flag.
Keys(s) == IF s = "certify"
             THEN {"cdp_url", "output_dir", "mfa_phone", "mfa_timeout", "pass_path"}
             ELSE {"cdp_url", "output_dir", "mfa_phone", "mfa_timeout"}

\* What the user can put in the config file, the environment and the flag.
StrTexts == {"", "a", "b"}
NumTexts == {"", "7", "07", "9", "x"}
TextsOf(key) == IF key = "mfa_timeout" THEN NumTexts ELSE StrTexts
FileValues(key) == IF key = "mfa_timeout"
                     THEN {Num(7), Str("9"), Str("x")}
                     ELSE {Str(t) : t \in StrTexts}

\* int(v) of Python on the values above.
int(v) == IF v[1] = "int" THEN v
          ELSE CASE v[2] \in {"7", "07"} -> Num(7)
                 [] v[2] = "9" -> Num(9)
                 [] OTHER -> ValueError

Default(s, key) ==
  CASE key = "cdp_url" -> Str("http://127.0.0.1:9222")
    [] key = "output_dir" -> IF s = "att" THEN Str("~/invoices/att")
                             ELSE Str("~/expenses/certify")
    [] key = "mfa_phone" -> Str("")
    [] key = "mfa_timeout" -> Num(300)
    [] key = "pass_path" -> Str("certify/login")

\* Variant of load_config: the environment is applied after the flags.
load_config_env_last(s, key, file, env, flag) ==
  LET fromFile == IF file # Unset THEN file ELSE Default(s, key)
      fromArgs == IF flag # Unset
                    THEN IF key = "mfa_timeout" THEN int(flag) ELSE flag
                    ELSE fromFile
  IN  IF env # Unset /\ env # Str("")
        THEN IF key = "mfa_timeout" THEN int(env) ELSE env
        ELSE fromArgs

\* cfg[key] as load_config() returns it, ValueError if it raises.
load_config(s, key, file, env, flag) ==
  LET \* cfg.update(json.loads(CONFIG_FILE.read_text()))
      fromFile == IF file # Unset THEN file ELSE Default(s, key)
      \* val = os.environ.get(env_key); if val: ...
      fromEnv == IF env # Unset /\ env # Str("")
                   THEN IF key = "mfa_timeout" THEN int(env) ELSE env
                   ELSE fromFile
      \* for arg in sys.argv[1:]: if arg.startswith("--...="): ...
      fromArgs == IF flag # Unset
                    THEN IF key = "mfa_timeout" THEN int(flag) ELSE flag
                    ELSE fromEnv
  IN  IF fromEnv = ValueError THEN ValueError ELSE fromArgs

\* The module-level constant made of cfg[key]: MFA_TIMEOUT = int(...), the
\* others as they are.
Effective(key, v) ==
  IF v # ValueError /\ key = "mfa_timeout" THEN int(v) ELSE v

ConfigInit ==
  /\ script \in {"att", "certify"}
  /\ pc = "import"
  /\ cfgKey \in Keys(script)
  /\ configFile \in {Unset} \cup FileValues(cfgKey)
  /\ environ \in {Unset} \cup {Str(t) : t \in TextsOf(cfgKey)}
  /\ argv \in {Unset} \cup {Str(t) : t \in TextsOf(cfgKey)}
  /\ cfg = Unset
  /\ browserOps = {} /\ exitCode = -1
  /\ LoginIdle /\ FsIdle /\ DownloadIdle /\ ExpenseIdle /\ WalletIdle /\ PagesIdle

\* _cfg = load_config() and the constants made of it, at import.
LoadConfig ==
  /\ pc = "import"
  /\ cfg' = Effective(cfgKey, load_config(script, cfgKey, configFile, environ, argv))
  /\ pc' = IF cfg' = ValueError THEN "traceback" ELSE "configured"
  /\ UNCHANGED <<script, cfgKey, configFile, environ, argv>>
  /\ UNCHANGED <<browserOps, exitCode, loginVars, fsVars, dlVars, expVars, walletVars, pagesVars>>

ConfigNext == LoadConfig

ConfigSpec == ConfigInit /\ [][ConfigNext]_vars

\* ================================================================= mkdir
\* OUTPUT_DIR.mkdir(parents=True, exist_ok=True) at the start of every
\* script (SAVE_DIR in att_download_bills.py).  The directory's path has
\* MaxDepth components; prefix i is the path made of the first i of them.
Scripts == {"att", "certify", "att_download_bills", "certify_expenses"}
EntryNames == {"status.txt", "mfa_code.txt", "step_mfa.png"}

\* A file system in which a path exists only inside existing directories.
Consistent(f) == \A i \in 2..MaxDepth : f[i] # "absent" => f[i - 1] = "dir"

\* Variant of mkdir: exist_ok=False.
RECURSIVE mkdir_exist_not_ok(_, _)
mkdir_exist_not_ok(f, i) ==
  LET parent == IF i = 1 THEN "dir" ELSE f[i - 1] IN
  CASE parent = "file" -> [fs |-> f, err |-> "NotADirectoryError"]
    [] parent = "absent" ->
         LET r == mkdir_exist_not_ok(f, i - 1)
         IN  IF r.err # "none" THEN r ELSE mkdir_exist_not_ok(r.fs, i)
    [] f[i] = "absent" -> [fs |-> [f EXCEPT ![i] = "dir"], err |-> "none"]
    [] OTHER -> [fs |-> f, err |-> "FileExistsError"]

\* Path.mkdir(parents=True, exist_ok=True) on prefix i: the file system it
\* leaves and the exception it raises.
RECURSIVE mkdir(_, _)
mkdir(f, i) ==
  LET parent == IF i = 1 THEN "dir" ELSE f[i - 1] IN
  CASE parent = "file" -> [fs |-> f, err |-> "NotADirectoryError"]
    [] parent = "absent" ->
         \* FileNotFoundError: the parents are made first
         LET r == mkdir(f, i - 1)
         IN  IF r.err # "none" THEN r ELSE mkdir(r.fs, i)
    [] f[i] = "absent" -> [fs |-> [f EXCEPT ![i] = "dir"], err |-> "none"]
    [] f[i] = "dir" -> [fs |-> f, err |-> "none"]
    [] OTHER -> [fs |-> f, err |-> "FileExistsError"]

MkdirInit ==
  /\ script \in Scripts
  /\ pc = "import"
  /\ fs \in [1..MaxDepth -> {"absent", "dir", "file"}]
  /\ Consistent(fs)
  /\ content \in SUBSET EntryNames
  /\ fs[MaxDepth] # "dir" => content = {}
  /\ runs = 0
  /\ mkdirErr = "none"
  /\ browserOps = {} /\ exitCode = -1
  /\ LoginIdle /\ ConfigIdle /\ DownloadIdle /\ ExpenseIdle /\ WalletIdle /\ PagesIdle

\* The script is started: the module-level mkdir runs.
MakeOutputDir ==
  /\ pc = "import"
  /\ LET r == mkdir(fs, MaxDepth)
     IN  /\ fs' = r.fs
         /\ mkdirErr' = r.err
         /\ pc' = IF r.err = "none" THEN "ready" ELSE "traceback"
  /\ runs' = runs + 1
  /\ UNCHANGED <<script, content, browserOps, exitCode>>
  /\ UNCHANGED <<loginVars, cfgVars, dlVars, expVars, walletVars, pagesVars>>

\* The user starts the script again.
RunAgain ==
  /\ pc \in {"ready", "traceback"}
  /\ runs < MaxRuns
  /\ pc' = "import"
  /\ UNCHANGED <<script, fsVars, browserOps, exitCode>>
  /\ UNCHANGED <<loginVars, cfgVars, dlVars, expVars, walletVars, pagesVars>>

MkdirNext == MakeOutputDir \/ RunAgain

MkdirSpec == MkdirInit /\ [][MkdirNext]_vars

\* ================================================== att_download_bills.py
\* main() after SAVE_DIR.mkdir: connect, visit every account, download the
\* bills of every page of its bill history, print the summary, disconnect.
Filenames == {"ATTBill_1.pdf", "ATTBill_2.pdf"}

DownloadInit ==
  /\ script = "att_download_bills"
  /\ pc = "dl_connect"
  /\ ONLY_NEW \in BOOLEAN
  /\ saveDir \in [Filenames -> {"absent", "old"}]
  /\ accountsLeft = 0 /\ rowsLeft = 0
  /\ filename = "" /\ saved = <<>> /\ cancels = 0 /\ dlCount = 0
  /\ accounts = 0 /\ all_saved = 0
  /\ browserOps = {} /\ exitCode = -1
  /\ LoginIdle /\ ConfigIdle /\ FsIdle /\ ExpenseIdle /\ WalletIdle /\ PagesIdle

\* What a step of the downloader leaves alone outside its own variables.
DlFrame ==
  UNCHANGED <<script, ONLY_NEW, loginVars, cfgVars, fsVars, expVars, walletVars, pagesVars>>

\* An exception that nothing catches: asyncio.run(main()) ends with a traceback.
DlCrash ==
  /\ pc' = "exited"
  /\ exitCode' = 1
  /\ UNCHANGED browserOps

\* pw.stop(); sys.exit(1)
DlStopAndExit ==
  /\ pc' = "exited"
  /\ exitCode' = 1
  /\ browserOps' = browserOps \cup {"stop"}

\* pw = await async_playwright().start(); connect_over_cdp; pages[0]
DlConnect ==
  /\ pc = "dl_connect"
  /\ \E outcome \in {"connected", "refused", "no_page"} :
       CASE outcome = "connected" ->
              /\ pc' = "dl_overview"
              /\ browserOps' = browserOps \cup {"connect_over_cdp"}
              /\ UNCHANGED exitCode
         [] outcome = "refused" ->
              /\ pc' = "exited"
              /\ exitCode' = 1
              /\ browserOps' = browserOps \cup {"connect_over_cdp", "stop"}
         [] OTHER ->
              \* browser.contexts[0].pages[0] raises IndexError
              /\ pc' = "exited"
              /\ exitCode' = 1
              /\ browserOps' = browserOps \cup {"connect_over_cdp"}
  /\ UNCHANGED <<saveDir, accountsLeft, rowsLeft, filename, saved, cancels, dlCount>>
  /\ UNCHANGED <<accounts, all_saved>>
  /\ DlFrame

\* if not await go_to_overview(page): pw.stop(); sys.exit(1)
\* accounts = await discover_accounts(page)
DlDiscover ==
  /\ pc = "dl_overview"
  /\ \E outcome \in {"not_logged_in", "raises", "accounts"} :
       CASE outcome = "not_logged_in" ->
              DlStopAndExit /\ UNCHANGED <<accountsLeft, accounts>>
         [] outcome = "raises" ->
              DlCrash /\ UNCHANGED <<accountsLeft, accounts>>
         [] OTHER ->
              \* no tile found counts as one account, "current"
              /\ \E n \in 1..MaxAccounts : accounts' = n /\ accountsLeft' = n
              /\ pc' = "dl_account"
              /\ UNCHANGED <<browserOps, exitCode>>
  /\ UNCHANGED <<saveDir, rowsLeft, filename, saved, cancels, dlCount, all_saved>>
  /\ DlFrame

\* for acct in accounts: overview, switch, bill history
DlNextAccount ==
  /\ pc = "dl_account"
  /\ accountsLeft > 0
  /\ accountsLeft' = accountsLeft - 1
  /\ \E outcome \in {"skipped", "raises", "history"} :
       CASE outcome = "skipped" ->
              \* go_to_overview or switch_to_account returned False: continue
              UNCHANGED <<pc, saved, browserOps, exitCode>>
         [] outcome = "raises" ->
              DlCrash /\ UNCHANGED saved
         [] OTHER ->
              /\ pc' = "dl_page"
              /\ saved' = <<>>
              /\ UNCHANGED <<browserOps, exitCode>>
  /\ UNCHANGED <<saveDir, rowsLeft, filename, cancels, dlCount, accounts, all_saved>>
  /\ DlFrame

\* while True: rows = page.locator('.titleBill'); count = ...
DlPage ==
  /\ pc = "dl_page"
  /\ \E count \in 0..MaxRows, expanded \in BOOLEAN :
       /\ rowsLeft' = count
       /\ pc' = IF count = 0 THEN "dl_account"   \* no bills, or a page seen before
                ELSE IF expanded THEN "dl_first" ELSE "dl_rows"
       \* back in main(): all_saved[acct_label] = saved
       /\ all_saved' = IF count = 0 THEN all_saved + 1 ELSE all_saved
  /\ UNCHANGED <<saveDir, accountsLeft, filename, saved, cancels, dlCount, accounts>>
  /\ UNCHANGED <<browserOps, exitCode>>
  /\ DlFrame

\* if ONLY_NEW and os.path.exists(save_path): await dl.cancel()
\* else: await dl.save_as(save_path)
SaveOrCancel(n) ==
  /\ filename' = n
  /\ dlCount' = dlCount + 1
  /\ IF ONLY_NEW /\ saveDir[n] # "absent"
       THEN cancels' = cancels + 1 /\ UNCHANGED saveDir
       ELSE saveDir' = [saveDir EXCEPT ![n] = "new"] /\ UNCHANGED cancels
  /\ saved' = Append(saved, n)

\* The first row is already expanded: its download is handled in place.
DlFirstExpanded ==
  /\ pc = "dl_first"
  /\ pc' = "dl_rows"
  /\ rowsLeft' = rowsLeft - 1
  /\ \/ \* no "Regular PDF" option, or the download raised
        UNCHANGED <<filename, dlCount, cancels, saveDir, saved>>
     \/ /\ dlCount < MaxBills
        /\ \E n \in Filenames : SaveOrCancel(n)
  /\ UNCHANGED <<accountsLeft, accounts, all_saved, browserOps, exitCode>>
  /\ DlFrame

\* Variant of DownloadBill: the download is saved whatever ONLY_NEW says.
DownloadBillAlwaysSaves ==
  /\ pc = "dl_rows"
  /\ rowsLeft > 0
  /\ rowsLeft' = rowsLeft - 1
  /\ \/ UNCHANGED <<filename, dlCount, cancels, saveDir, saved>>
     \/ /\ dlCount < MaxBills
        /\ \E n \in Filenames :
             /\ filename' = n
             /\ dlCount' = dlCount + 1
             /\ saveDir' = [saveDir EXCEPT ![n] = "new"]
             /\ saved' = Append(saved, n)
             /\ UNCHANGED cancels
  /\ UNCHANGED <<pc, accountsLeft, accounts, all_saved, browserOps, exitCode>>
  /\ DlFrame

\* name = await download_bill(page, i); if name: saved.append(name)
DownloadBill ==
  /\ pc = "dl_rows"
  /\ rowsLeft > 0
  /\ rowsLeft' = rowsLeft - 1
  /\ \/ \* no button, no "Regular PDF" option, or an exception: None
        UNCHANGED <<filename, dlCount, cancels, saveDir, saved>>
     \/ /\ dlCount < MaxBills
        /\ \E n \in Filenames : SaveOrCancel(n)
  /\ UNCHANGED <<pc, accountsLeft, accounts, all_saved, browserOps, exitCode>>
  /\ DlFrame

\* "Next" link: another page; otherwise the account is done.
DlNextPage ==
  /\ pc = "dl_rows"
  /\ rowsLeft = 0
  /\ \E next_link \in BOOLEAN :
       /\ pc' = IF next_link THEN "dl_page" ELSE "dl_account"
       \* back in main(): all_saved[acct_label] = saved
       /\ all_saved' = IF next_link THEN all_saved ELSE all_saved + 1
  /\ UNCHANGED <<saveDir, accountsLeft, rowsLeft, filename, saved, cancels, dlCount, accounts>>
  /\ UNCHANGED <<browserOps, exitCode>>
  /\ DlFrame

\* Summary; await pw.stop(); main() returns.
DlSummary ==
  /\ pc = "dl_account"
  /\ accountsLeft = 0
  /\ pc' = "exited"
  /\ exitCode' = 0
  /\ browserOps' = browserOps \cup {"stop"}
  /\ UNCHANGED <<saveDir, accountsLeft, rowsLeft, filename, saved, cancels, dlCount>>
  /\ UNCHANGED <<accounts, all_saved>>
  /\ DlFrame

DownloadNext ==
  \/ DlConnect \/ DlDiscover \/ DlNextAccount \/ DlPage \/ DlFirstExpanded
  \/ DownloadBill \/ DlNextPage \/ DlSummary

DownloadSpec == DownloadInit /\ [][DownloadNext]_vars

\* ==================================================== certify_expenses.py
\* main(): the command named on the command line runs; cmd_full runs the
\* other four in a row.  Each cmd_ function is one step whose outcome is
\* chosen among the paths through its body.
Commands == {"upload-receipts", "create-from-wallet", "adjust", "submit", "full"}
Functions == {"cmd_upload_receipts", "cmd_create_from_wallet", "cmd_adjust",
              "cmd_submit"}

\* What argparse accepts for each command.
ArgsOf(c) ==
  {a \in [command : {c}, confirm : BOOLEAN, receipts : BOOLEAN,
          report_id : {"", "R1"}] :
     /\ a.confirm => c \in {"submit", "full"}
     /\ a.receipts <=> (c = "upload-receipts" \/ (c = "full" /\ a.receipts))
     /\ a.report_id # "" => c \in {"adjust", "submit", "full"}}

ExpenseInit ==
  /\ script = "certify_expenses"
  /\ pc = "ex_main"
  /\ args \in UNION {ArgsOf(c) : c \in Commands}
  /\ lastReportId \in {"absent", "", "unknown", "R1"}
  /\ trace = <<>>
  /\ ret = [f \in Functions |-> "none"]
  /\ success = "none"
  /\ browserOps = {} /\ exitCode = -1
  /\ LoginIdle /\ ConfigIdle /\ FsIdle /\ DownloadIdle /\ WalletIdle /\ PagesIdle

ExFrame ==
  UNCHANGED <<script, args, loginVars, cfgVars, fsVars, dlVars, walletVars, pagesVars>>

PcOf(c) ==
  CASE c = "upload-receipts" -> "ex_upload"
    [] c = "create-from-wallet" -> "ex_create"
    [] c = "adjust" -> "ex_adjust"
    [] c = "submit" -> "ex_submit"

\* success = commands[args.command](args); cmd_full up to its first call.
ExDispatch ==
  /\ pc = "ex_main"
  /\ IF args.command = "full"
       THEN /\ trace' = <<"cmd_full">>
            /\ pc' = IF args.receipts THEN "ex_upload" ELSE "ex_create"
       ELSE /\ pc' = PcOf(args.command)
            /\ UNCHANGED trace
  /\ UNCHANGED <<lastReportId, ret, success, browserOps, exitCode>>
  /\ ExFrame

\* Variant of FullAfter: a failed adjust makes cmd_full return False.
FullAfterAdjustMustPass(f, v) ==
  CASE f = "cmd_upload_receipts" -> [pc |-> "ex_create", success |-> success]
    [] f = "cmd_create_from_wallet" ->
         IF v = "True" THEN [pc |-> "ex_adjust", success |-> success]
         ELSE [pc |-> "ex_return", success |-> "False"]
    [] f = "cmd_adjust" ->
         IF v = "False" THEN [pc |-> "ex_return", success |-> "False"]
         ELSE IF args.confirm THEN [pc |-> "ex_submit", success |-> success]
         ELSE [pc |-> "ex_full_end", success |-> success]
    [] f = "cmd_submit" -> [pc |-> "ex_return", success |-> v]

\* cmd_full: where control goes, and what cmd_full returns, once function f
\* has returned v.
FullAfter(f, v) ==
  CASE f = "cmd_upload_receipts" ->
         \* a False only prints a warning
         [pc |-> "ex_create", success |-> success]
    [] f = "cmd_create_from_wallet" ->
         IF v = "True" THEN [pc |-> "ex_adjust", success |-> success]
         ELSE [pc |-> "ex_return", success |-> "False"]
    [] f = "cmd_adjust" ->
         \* best effort: the result is dropped
         IF args.confirm THEN [pc |-> "ex_submit", success |-> success]
         ELSE [pc |-> "ex_full_end", success |-> success]
    [] f = "cmd_submit" -> [pc |-> "ex_return", success |-> v]

\* Function f returns v, to cmd_full or to main().
ReturnFrom(f, v) ==
  /\ ret' = [ret EXCEPT ![f] = v]
  /\ IF args.command = "full"
       THEN pc' = FullAfter(f, v).pc /\ success' = FullAfter(f, v).success
       ELSE pc' = "ex_return" /\ success' = v
  /\ UNCHANGED exitCode

\* connect_browser() fails: pw.stop(); sys.exit(1)
ConnectFailed(f) ==
  /\ trace' = trace \o <<f, "connect_browser">>
  /\ browserOps' = browserOps \cup {"connect_over_cdp", "stop"}
  /\ pc' = "exited"
  /\ exitCode' = 1
  /\ UNCHANGED <<ret, success>>

\* connect_browser() ... finally: pw.stop(), with the events in between.
Session(f, events) ==
  /\ trace' = trace \o <<f, "connect_browser">> \o events
  /\ browserOps' = browserOps \cup {"connect_over_cdp", "stop"}

\* Function f returns before it connects.
NoSession(f) ==
  /\ trace' = Append(trace, f)
  /\ UNCHANGED browserOps

\* An exception outside every try block: traceback.
Traceback(f) ==
  /\ trace' = Append(trace, f)
  /\ pc' = "exited"
  /\ exitCode' = 1
  /\ UNCHANGED <<browserOps, ret, success>>

cmd_upload_receipts ==
  /\ pc = "ex_upload"
  /\ \E outcome \in {"no_files", "connect_failed", "not_logged_in", "exception",
                     "uploaded"} :
       LET f == "cmd_upload_receipts" IN
       CASE outcome = "no_files" -> NoSession(f) /\ ReturnFrom(f, "False")
         [] outcome = "connect_failed" -> ConnectFailed(f)
         [] outcome = "uploaded" -> Session(f, <<>>) /\ ReturnFrom(f, "True")
         [] OTHER -> Session(f, <<>>) /\ ReturnFrom(f, "False")
  /\ UNCHANGED lastReportId
  /\ ExFrame

cmd_create_from_wallet ==
  /\ pc = "ex_create"
  /\ \E outcome \in {"connect_failed", "not_logged_in", "exception",
                     "exception_after_id", "created"},
        id \in {"unknown", "R2"} :
       LET f == "cmd_create_from_wallet" IN
       CASE outcome = "connect_failed" ->
              ConnectFailed(f) /\ UNCHANGED lastReportId
         [] outcome = "created" ->
              /\ Session(f, <<>>) /\ ReturnFrom(f, "True")
              /\ lastReportId' = id
         [] outcome = "exception_after_id" ->
              /\ Session(f, <<>>) /\ ReturnFrom(f, "False")
              /\ lastReportId' = id
         [] OTHER ->
              /\ Session(f, <<>>) /\ ReturnFrom(f, "False")
              /\ UNCHANGED lastReportId
  /\ ExFrame

\* report_id = args.report_id or (OUTPUT_DIR / "last_report_id.txt").read_text().strip()
report_id == IF args.report_id # "" THEN args.report_id ELSE lastReportId

\* page.goto(f"https://expense.certify.com/ExpRptView.aspx?ID={report_id}")
ReportPage(id) ==
  IF id = "R1" THEN "ExpRptView.aspx?ID=R1" ELSE "ExpRptView.aspx?ID=R2"

cmd_adjust ==
  /\ pc = "ex_adjust"
  /\ LET f == "cmd_adjust" IN
     IF report_id = "absent"
       THEN Traceback(f)   \* FileNotFoundError
       ELSE IF report_id \in {"", "unknown"}
         THEN NoSession(f) /\ ReturnFrom(f, "False")
         ELSE \E outcome \in {"connect_failed", "not_logged_in", "exception",
                              "adjusted"} :
                CASE outcome = "connect_failed" -> ConnectFailed(f)
                  [] outcome = "not_logged_in" ->
                       Session(f, <<>>) /\ ReturnFrom(f, "False")
                  [] outcome = "adjusted" ->
                       /\ Session(f, <<ReportPage(report_id)>>)
                       /\ ReturnFrom(f, "True")
                  [] OTHER ->
                       /\ Session(f, <<ReportPage(report_id)>>)
                       /\ ReturnFrom(f, "False")
  /\ UNCHANGED lastReportId
  /\ ExFrame

cmd_submit ==
  /\ pc = "ex_submit"
  /\ LET f == "cmd_submit" IN
     IF report_id = "absent"
       THEN Traceback(f)   \* FileNotFoundError
       ELSE IF report_id \in {"", "unknown"}
         THEN NoSession(f) /\ ReturnFrom(f, "False")
         ELSE IF ~args.confirm
           THEN NoSession(f) /\ ReturnFrom(f, "False")
           ELSE \E outcome \in {"connect_failed", "not_logged_in", "no_button",
                                "click_exception", "submitted"} :
                  CASE outcome = "connect_failed" -> ConnectFailed(f)
                    [] outcome = "not_logged_in" ->
                         Session(f, <<>>) /\ ReturnFrom(f, "False")
                    [] outcome = "submitted" ->
                         /\ Session(f, <<ReportPage(report_id), "submit_btn.click">>)
                         /\ ReturnFrom(f, "True")
                    [] outcome = "click_exception" ->
                         \* an exception after the click: False
                         /\ Session(f, <<ReportPage(report_id), "submit_btn.click">>)
                         /\ ReturnFrom(f, "False")
                    [] OTHER ->
                         /\ Session(f, <<ReportPage(report_id)>>)
                         /\ ReturnFrom(f, "False")
  /\ UNCHANGED lastReportId
  /\ ExFrame

\* cmd_full without --confirm: the hint is printed, cmd_full returns True.
ExFullEnd ==
  /\ pc = "ex_full_end"
  /\ IF lastReportId = "absent"
       THEN pc' = "exited" /\ exitCode' = 1 /\ UNCHANGED success
       ELSE pc' = "ex_return" /\ success' = "True" /\ UNCHANGED exitCode
  /\ UNCHANGED <<lastReportId, trace, ret, browserOps>>
  /\ ExFrame

\* sys.exit(0 if success else 1)
ExExit ==
  /\ pc = "ex_return"
  /\ pc' = "exited"
  /\ exitCode' = IF success = "True" THEN 0 ELSE 1
  /\ UNCHANGED <<lastReportId, trace, ret, success, browserOps>>
  /\ ExFrame

ExpenseNext ==
  \/ ExDispatch \/ cmd_upload_receipts \/ cmd_create_from_wallet
  \/ cmd_adjust \/ cmd_submit \/ ExFullEnd \/ ExExit

ExpenseSpec == ExpenseInit /\ [][ExpenseNext]_vars

\* ================================================ cmd_create_from_wallet
\* The two nested loops of cmd_create_from_wallet that add one expense per
\* month and line item.  Dates are day numbers in a calendar of 365-day
\* years; amounts and the limit are whole numbers.
MonthStart == <<0, 31, 59, 90, 120, 151, 181, 212, 243, 273, 304, 334>>
MonthOf(doy) ==
  CHOOSE m \in 1..12 :
    MonthStart[m] <= doy /\ (m = 12 \/ doy < MonthStart[m + 1])
\* strftime("%Y-%m") of day number n
KeyOf(n) == 12 * (n \div 365) + MonthOf(n % 365)

\* 1 March, 31 March and 15 July of year 1
Todays == {424, 454, 560}

WalletInit ==
  /\ script = "certify_expenses"
  /\ pc = "cw_month"
  /\ today \in Todays
  /\ monthly_limit \in 0..MaxLimit
  /\ line_items \in UNION {[1..n -> 0..MaxAmount] : n \in 1..MaxItems}
  /\ months_back \in 1..MaxMonths
  /\ month_offset = 0 /\ item = 0 /\ month_key = 0
  /\ monthly_totals = <<>>
  /\ total = 0
  /\ forms = <<>>
  /\ saves = 0
  /\ browserOps = {"connect_over_cdp"} /\ exitCode = -1
  /\ LoginIdle /\ ConfigIdle /\ FsIdle /\ DownloadIdle /\ ExpenseIdle /\ PagesIdle

WalletFrame ==
  /\ UNCHANGED <<script, today, monthly_limit, line_items, months_back>>
  /\ UNCHANGED <<exitCode, loginVars, cfgVars, fsVars, dlVars, expVars, pagesVars>>

\* for month_offset in range(months_back): month_key = ...;
\* monthly_totals.setdefault(month_key, 0.0)
NextMonth ==
  /\ pc = "cw_month"
  /\ month_offset < months_back
  /\ LET key == KeyOf(today - (month_offset + 1) * DaysBack) IN
       /\ month_key' = key
       /\ monthly_totals' = IF key \in DOMAIN monthly_totals
                              THEN monthly_totals
                              ELSE monthly_totals @@ (key :> 0)
  /\ item' = 1
  /\ pc' = "cw_item"
  /\ UNCHANGED <<month_offset, total, forms, saves, browserOps>>
  /\ WalletFrame

\* Variant of AddLineItem: the limit is not looked at.
AddLineItemNoLimit ==
  /\ pc = "cw_item"
  /\ item <= Len(line_items)
  /\ LET amount == line_items[item] IN
       /\ forms' = Append(forms, <<month_key, amount>>)
       /\ saves' = saves + 1
       /\ monthly_totals' = [monthly_totals EXCEPT ![month_key] = @ + amount]
       /\ total' = total + amount
       /\ item' = item + 1
       /\ UNCHANGED <<pc, browserOps>>
  /\ UNCHANGED <<month_offset, month_key>>
  /\ WalletFrame

\* One pass of `for item in line_items`: the limit test, then the expense
\* form (Add Expense, wallet item, date, category, amount, vendor, location,
\* Save) and the two running sums.
AddLineItem ==
  /\ pc = "cw_item"
  /\ item <= Len(line_items)
  /\ LET amount == line_items[item] IN
       IF monthly_totals[month_key] + amount > monthly_limit
         THEN \* "would exceed": continue
              /\ item' = item + 1
              /\ UNCHANGED <<pc, monthly_totals, total, forms, saves, browserOps>>
         ELSE \E outcome \in {"saved", "no_save_button", "exception"} :
                /\ forms' = Append(forms, <<month_key, amount>>)
                /\ saves' = IF outcome = "saved" THEN saves + 1 ELSE saves
                /\ IF outcome = "exception"
                     THEN \* except Exception: return False; finally: pw.stop()
                          /\ pc' = "cw_false"
                          /\ browserOps' = browserOps \cup {"stop"}
                          /\ UNCHANGED <<item, monthly_totals, total>>
                     ELSE /\ monthly_totals' =
                               [monthly_totals EXCEPT ![month_key] = @ + amount]
                          /\ total' = total + amount
                          /\ item' = item + 1
                          /\ UNCHANGED <<pc, browserOps>>
  /\ UNCHANGED <<month_offset, month_key>>
  /\ WalletFrame

\* The inner loop is over: next month_offset.
EndMonth ==
  /\ pc = "cw_item"
  /\ item > Len(line_items)
  /\ month_offset' = month_offset + 1
  /\ pc' = "cw_month"
  /\ UNCHANGED <<item, month_key, monthly_totals, total, forms, saves, browserOps>>
  /\ WalletFrame

\* The outer loop is over: summary, return True; finally: pw.stop()
WalletDone ==
  /\ pc = "cw_month"
  /\ month_offset >= months_back
  /\ pc' = "cw_true"
  /\ browserOps' = browserOps \cup {"stop"}
  /\ UNCHANGED <<month_offset, item, month_key, monthly_totals, total, forms, saves>>
  /\ WalletFrame

WalletNext == NextMonth \/ AddLineItem \/ EndMonth \/ WalletDone

WalletSpec == WalletInit /\ [][WalletNext]_vars

\* ============================== download_all_bills_for_current_account
\* The `while True` loop over the pages of the bill history of one account.
\* The site is fixed during the run: every page has its rows and the page
\* its Next link leads to.  What the downloads of a page do is in DownloadBill.
BillTexts == {"Jan", "Feb"}
Pages == 1..MaxPages
RowLists == UNION {[1..n -> BillTexts] : n \in 0..MaxRows}
Range(f) == {f[i] : i \in DOMAIN f}

PagesInit ==
  /\ script = "att_download_bills"
  /\ pc = "pg_loop"
  /\ billPages \in [Pages -> [rows : RowLists, next : {0} \cup Pages]]
  /\ curPage = 1
  /\ seen_bills = {}
  /\ processed = <<>>
  /\ browserOps = {"connect_over_cdp"} /\ exitCode = -1
  /\ LoginIdle /\ ConfigIdle /\ FsIdle /\ DownloadIdle /\ ExpenseIdle /\ WalletIdle

PagesFrame ==
  UNCHANGED <<script, billPages, browserOps, exitCode, loginVars, cfgVars, fsVars,
              dlVars, expVars, walletVars>>

\* Variant of PgInspect: a page is processed whether or not its first bill
\* was seen before.
PgInspectNoLoopCheck ==
  /\ pc = "pg_loop"
  /\ LET rows == billPages[curPage].rows IN
       IF Len(rows) = 0
         THEN pc' = "pg_done" /\ UNCHANGED <<seen_bills, processed>>
         ELSE /\ seen_bills' = seen_bills \cup Range(rows)
              /\ processed' = Append(processed, curPage)
              /\ pc' = "pg_bills"
  /\ UNCHANGED curPage
  /\ PagesFrame

\* count = await rows.count(); if count == 0: break
\* if first_txt in seen_bills: break; seen_bills.add(every row)
PgInspect ==
  /\ pc = "pg_loop"
  /\ LET rows == billPages[curPage].rows IN
       IF Len(rows) = 0
         THEN pc' = "pg_done" /\ UNCHANGED <<seen_bills, processed>>
         ELSE IF rows[1] \in seen_bills
           THEN \* "Loop detected"
                pc' = "pg_done" /\ UNCHANGED <<seen_bills, processed>>
           ELSE /\ seen_bills' = seen_bills \cup Range(rows)
                /\ processed' = Append(processed, curPage)
                /\ pc' = "pg_bills"
  /\ UNCHANGED curPage
  /\ PagesFrame

\* The downloads of the page, then the Next link: click it, or break.
PgNext ==
  /\ pc = "pg_bills"
  /\ IF billPages[curPage].next = 0
       THEN pc' = "pg_done" /\ UNCHANGED curPage
       ELSE pc' = "pg_loop" /\ curPage' = billPages[curPage].next
  /\ UNCHANGED <<seen_bills, processed>>
  /\ PagesFrame

PagesNext == PgInspect \/ PgNext

PagesSpec == PagesInit /\ [][PagesNext]_vars

\* The loop is not suspended for ever: asyncio runs the coroutine on.
PagesFairSpec == PagesSpec /\ WF_vars(PagesNext)

\* ============================================================ all scripts
\* Every script of the repository in one specification: a run is a run of
\* att_login.py or certify_login.py, of att_download_bills.py, of one command
\* of certify_expenses.py, or of the expense loop of cmd_create_from_wallet.
ScriptsInit == Init \/ DownloadInit \/ ExpenseInit \/ WalletInit

ScriptsNext == Next \/ DownloadNext \/ ExpenseNext \/ WalletNext

ScriptsSpec == ScriptsInit /\ [][ScriptsNext]_vars

\* ================================================================ claims
LoopOver == loop \in {"cond_false", "break", "raised"}
RunOver == pc = "exited"
LastStatus == IF statusLog = <<>> THEN "" ELSE statusLog[Len(statusLog)]
Logged(tok) == \E i \in 1..Len(statusLog) : statusLog[i] = tok
\* The code file did not exist at any moment of the wait loop.
NeverCreated == ~fileAtStart /\ writeT = -1

\* C1: if the code file is never created, the wait loop is over no later than
\* MFA_TIMEOUT + PollInterval after it started (the loop is never found
\* running or sleeping beyond that time) and it ends through its condition,
\* in the timeout outcome, not with a code.
C1_Terminates ==
  /\ now <= T + PollInterval
  /\ pc = "poll_sleep" => now <= wake /\ wake <= T + PollInterval
  /\ (LoopOver /\ NeverCreated) =>
       /\ loop = "cond_false"
       /\ ~Truthy(code)
       /\ pc \in {"finally", "main", "exited"} =>
            LastStatus = "ERROR_MFA_TIMEOUT" /\ result = "False"

C1_Witness ==
  /\ RunOver /\ loop = "cond_false" /\ NeverCreated
  /\ T >= 3 /\ now > T
  /\ LastStatus = "ERROR_MFA_TIMEOUT"

\* The actor's only operation while the loop runs is one write of a
\* non-empty code at time writeT.
OneCodeWrite ==
  /\ waitOps = 1 /\ writeT >= 0
  /\ codeFile # NoFile /\ Truthy(Strip(codeFile))

\* C2: a non-empty code written at any time t with 0 <= t < MFA_TIMEOUT after
\* the wait loop started makes the loop exit with exactly that code.
C2_WrittenCodeIsReturned ==
  (LoopOver /\ OneCodeWrite /\ writeT < T) =>
     loop = "break" /\ code = Strip(codeFile)

\* C3: with MFA_TIMEOUT = 4 and the poll interval of 2, a code written at
\* t = 3 is returned by the loop instead of the timeout.
C3_Scenario ==
  (LoopOver /\ OneCodeWrite /\ T = 4 /\ PollInterval = 2 /\ writeT = 3) =>
     loop = "break" /\ code = Strip(codeFile)

\* C4: the code file is deleted before any status is written or any site
\* action is taken, and unless the actor writes the file after that deletion
\* the wait loop does not resolve: a code left by an earlier run is never
\* consumed.
C4_StaleCodeNotConsumed ==
  /\ pc \in {"start", "unlink"} =>
       statusLog = <<>> /\ \A k \in DOMAIN clicks : clicks[k] = 0
  /\ (pc = "connect" /\ ~acted) => codeFile = NoFile
  /\ loop = "break" => codeOrigin # "prior" /\ acted
  /\ ~acted => ~Truthy(code)

C4_Witness ==
  /\ fileOrigin = "unlinked" /\ ~acted
  /\ RunOver /\ loop = "cond_false" /\ T > 0 /\ code = None

\* C5: the code the wait loop resolves with was written after the run wrote
\* status MFA_CODE_SENT.
C5_CodeWrittenWhileWaiting ==
  loop = "break" => codeOrigin = "waiting"

\* C6: a poll that finds the code file absent, empty or holding only
\* whitespace leaves the run waiting: the loop goes to sleep, no status is
\* written, no exception is raised and the loop does not resolve.
PollFindsNothing ==
  /\ pc' # pc
  /\ \/ pc = "poll_exists" /\ codeFile = NoFile
     \/ pc = "poll_read" /\ codeFile # NoFile /\ \A i \in DOMAIN codeFile : IsSpace(codeFile[i])

C6_BlankKeepsWaiting ==
  [][PollFindsNothing =>
       /\ pc' = "poll_sleep"
       /\ loop' = "running"
       /\ ~Truthy(code')
       /\ UNCHANGED <<statusFile, statusLog, result, excType, exitCode>>]_vars

C6_Witness ==
  /\ pc = "poll_sleep" /\ loop = "running"
  /\ code = <<>> /\ codeFile = <<" ">>

\* C7: once the wait loop resolved with a code, no step of the run deletes,
\* truncates or rewrites the code file: to the end of the run the file holds
\* what the actor wrote, the text the code was read from.
C7_CodeFileKept ==
  /\ [](loop = "break" =>
          codeFile # NoFile /\ Strip(codeFile) = code)
  /\ [][(loop = "break" /\ pc' # pc) => codeFile' = codeFile]_vars

C7_Witness ==
  /\ RunOver /\ loop = "break"
  /\ typed = code /\ codeFile # NoFile

\* C8: when the wait loop ends without a code, ERROR_MFA_TIMEOUT is the last
\* status of the run, nothing is typed into the code input, ENTERING_MFA_CODE
\* is never written, login() returns False and the process exits with 1.
C8_TimeoutOutcome ==
  (loop = "cond_false" /\ pc \in {"finally", "main", "exited"}) =>
     /\ LastStatus = "ERROR_MFA_TIMEOUT"
     /\ statusFile = "ERROR_MFA_TIMEOUT"
     /\ typed = None
     /\ clicks.code = 0
     /\ ~Logged("ENTERING_MFA_CODE")
     /\ result = "False"
     /\ RunOver => exitCode = 1

C8_Witness ==
  /\ RunOver /\ loop = "cond_false" /\ exitCode = 1
  /\ code = <<>>

\* The stage of the login attempt a status token belongs to.
Rank(tok) ==
  CASE tok = "NAVIGATING_TO_LOGIN" -> 1
    [] tok \in {"ENTERING_USERNAME", "USERNAME_SUBMITTED", "USERNAME_PREFILLED",
                "ENTERING_EMAIL", "ENTERING_PASSWORD", "SIGN_IN_CLICKED"} -> 2
    [] tok \in {"MFA_PAGE", "MFA_CODE_SENT"} -> 3
    [] tok \in {"ENTERING_MFA_CODE", "MFA_SUBMITTED", "ERROR_MFA_TIMEOUT"} -> 4
    [] OTHER -> 5

\* C9: within a run the status tokens only move forward through the stages,
\* no token is written twice and no site-facing submission is made twice.
C9_ForwardOnly ==
  /\ \A i \in 1..(Len(statusLog) - 1) :
        Rank(statusLog[i]) <= Rank(statusLog[i + 1])
  /\ \A i, j \in 1..Len(statusLog) : i < j => statusLog[i] # statusLog[j]
  /\ \A k \in DOMAIN clicks : clicks[k] <= 1

C9_Witness ==
  /\ RunOver /\ exitCode = 0
  /\ \A k \in DOMAIN clicks : clicks[k] = 1
  /\ Logged("MFA_SUBMITTED") /\ LastStatus = "LOGGED_IN"

LoggedInTokens == IF script = "certify" THEN {"LOGGED_IN", "ALREADY_LOGGED_IN"}
                  ELSE {"LOGGED_IN"}

\* C10: the script exits with 0 if and only if the last status token the run
\* wrote is a logged-in token; every other termination exits with 1.
C10_ExitCode ==
  RunOver =>
    /\ exitCode \in {0, 1}
    /\ exitCode = 0 <=> LastStatus \in LoggedInTokens

C10_Witness ==
  /\ RunOver /\ exitCode = 0 /\ loop = "break"
  /\ LastStatus = "LOGGED_IN" /\ script = "certify"

\* C11: a run that exits with code 1 leaves in the status file a failure
\* token it wrote itself: the run wrote at least one status, the file holds
\* the last of them, and that token is not a logged-in token of an earlier
\* run.
C11_FailureTokenLeft ==
  (RunOver /\ exitCode = 1) =>
     /\ statusLog # <<>>
     /\ statusFile = LastStatus
     /\ statusFile \notin {"", "LOGGED_IN", "ALREADY_LOGGED_IN"}

\* C12: MFA_CODE_SENT is written and the wait loop entered only in runs that
\* clicked the control that triggers code delivery.
C12_SentOnlyAfterClick ==
  (Logged("MFA_CODE_SENT") \/ pc \in WaitPcs \/ loop # "none") =>
     clicks.request = 1

\* The value a source gives to cfgKey, as the script uses it.
\* C13: on every path of every script the only operations on the shared
\* browser are attach (connect_over_cdp) and disconnect (pw.stop); none
\* launches, closes or terminates it.
C13_OnlyAttachAndDisconnect ==
  browserOps \subseteq {"connect_over_cdp", "stop"}

C13_Witness ==
  /\ script \in {"att", "certify"} /\ pc = "exited" /\ result = "True"
  /\ browserOps = {"connect_over_cdp", "stop"}

Given(v) == Effective(cfgKey, IF cfgKey = "mfa_timeout" THEN int(v) ELSE v)
Loaded == pc = "configured"

C15_MkdirIdempotent ==
  [][(pc = "import" /\ pc' # "import") =>
       /\ (\A i \in 1..MaxDepth : fs[i] = "dir") =>
            pc' = "ready" /\ mkdirErr' = "none" /\ fs' = fs /\ content' = content
       /\ runs >= 1 =>
            fs' = fs /\ content' = content /\ mkdirErr' = mkdirErr]_vars

C15_Witness ==
  /\ runs = 2 /\ pc = "ready" /\ mkdirErr = "none"
  /\ content = {"status.txt", "mfa_code.txt"}
  /\ \A i \in 1..MaxDepth : fs[i] = "dir"

\* A download was delivered in this step.
Downloaded == dlCount' = dlCount + 1

\* C17: with --only-new the download of a bill whose suggested file name
\* exists in the save directory is cancelled and no existing file changes;
\* in every other case the bill is saved under its suggested file name.
C17_OnlyNewSkipsExisting ==
  [][/\ Downloaded =>
          IF ONLY_NEW /\ saveDir[filename'] # "absent"
            THEN saveDir' = saveDir /\ cancels' = cancels + 1
            ELSE /\ saveDir' = [saveDir EXCEPT ![filename'] = "new"]
                 /\ cancels' = cancels
     /\ ONLY_NEW =>
          \A n \in DOMAIN saveDir : saveDir[n] # "absent" => saveDir'[n] = saveDir[n]
    ]_vars

C17_Witness ==
  /\ ONLY_NEW /\ pc = "exited" /\ exitCode = 0
  /\ cancels = 2 /\ dlCount = 3
  /\ saveDir["ATTBill_1.pdf"] = "old" /\ saveDir["ATTBill_2.pdf"] = "new"

\* Sum of the amounts of the items of month k whose expense form was filled.
RECURSIVE FormSum(_, _)
FormSum(fseq, k) ==
  IF fseq = <<>> THEN 0
  ELSE (IF Head(fseq)[1] = k THEN Head(fseq)[2] ELSE 0) + FormSum(Tail(fseq), k)

WouldExceed ==
  /\ pc = "cw_item" /\ item <= Len(line_items)
  /\ monthly_totals[month_key] + line_items[item] > monthly_limit

\* C19: for every month key the running sum monthly_totals, and the sum of
\* the amounts of the items whose expense form was filled, never exceed
\* monthly_limit; an item that would push the month's sum above the limit is
\* passed over with no form touched and no sum changed.
C19_MonthlyLimit ==
  /\ [](\A k \in DOMAIN monthly_totals :
          /\ monthly_totals[k] <= monthly_limit
          /\ FormSum(forms, k) <= monthly_limit
          /\ monthly_totals[k] <= FormSum(forms, k))
  /\ [][WouldExceed =>
          /\ forms' = forms /\ monthly_totals' = monthly_totals /\ total' = total
          /\ item' = item + 1 /\ pc' = "cw_item"]_vars

C19_Witness ==
  /\ pc = "cw_true" /\ today = 454 /\ months_back = 4
  /\ line_items = <<2, 2>> /\ monthly_limit = 3
  /\ Len(forms) = 3 /\ total = 6
  /\ \E k \in DOMAIN monthly_totals : monthly_totals[k] = 2 /\ FormSum(forms, k) = 2

Called(f) == \E i \in 1..Len(trace) : trace[i] = f

\* C18: without --confirm cmd_submit, when called, returns False before
\* connecting and the submit control is never clicked.
C18_SubmitReturnsFalse ==
  (~args.confirm /\ Called("cmd_submit")) =>
     /\ ret["cmd_submit"] = "False"
     /\ trace[Len(trace)] = "cmd_submit"
     /\ ~Called("submit_btn.click")

\* What holds of C18 in every run: without --confirm the submit control is
\* never clicked; cmd_submit, when called, connects to nothing and returns
\* False or stops with the FileNotFoundError of a missing
\* last_report_id.txt; cmd_full does not call cmd_submit and, having run the
\* adjust step, returns True.
NoSubmitWithoutConfirm ==
  ~args.confirm =>
     /\ ~Called("submit_btn.click")
     /\ Called("cmd_submit") =>
          /\ trace[Len(trace)] = "cmd_submit"
          /\ ret["cmd_submit"] # "True"
          /\ ret["cmd_submit"] = "none" => report_id = "absent"
          /\ pc = "ex_return" => success = "False"
          /\ pc = "exited" => exitCode = 1
     /\ args.command = "full" =>
          /\ ~Called("cmd_submit")
          /\ pc # "ex_submit"
          /\ (pc = "ex_return" /\ Called("cmd_adjust")) => success = "True"

\* The place of each function in cmd_full.
StepOf(f) ==
  CASE f = "cmd_upload_receipts" -> 1
    [] f = "cmd_create_from_wallet" -> 2
    [] f = "cmd_adjust" -> 3
    [] f = "cmd_submit" -> 4

\* C20: cmd_full calls upload, create-from-wallet, adjust, submit in this
\* order, each at most once; what upload and adjust return changes nothing;
\* if create-from-wallet returns False cmd_full returns False and neither
\* adjust nor submit runs; with --confirm cmd_full returns what cmd_submit
\* returned.
C20_FullOrder ==
  args.command = "full" =>
     /\ \A i, j \in 1..Len(trace) :
          (i < j /\ trace[i] \in Functions /\ trace[j] \in Functions) =>
             StepOf(trace[i]) < StepOf(trace[j])
     /\ pc \notin {"ex_main", "ex_upload"} =>
          (Called("cmd_upload_receipts") <=> args.receipts)
     /\ pc = "ex_return" =>
          /\ Called("cmd_create_from_wallet")
          /\ ret["cmd_create_from_wallet"] = "False" =>
               /\ ~Called("cmd_adjust") /\ ~Called("cmd_submit")
               /\ success = "False"
          /\ ret["cmd_create_from_wallet"] = "True" =>
               /\ Called("cmd_adjust")
               /\ Called("cmd_submit") <=> args.confirm
               /\ success = IF args.confirm THEN ret["cmd_submit"] ELSE "True"

C20_Witness ==
  /\ args.command = "full" /\ args.confirm /\ args.receipts
  /\ pc = "exited" /\ exitCode = 0
  /\ ret["cmd_upload_receipts"] = "False" /\ ret["cmd_adjust"] = "False"
  /\ ret["cmd_submit"] = "True"

\* The run saw the logged-in state without an MFA step, or skipped MFA.
LoggedInAtOnce == Logged("LOGGED_IN") /\ ~Logged("MFA_SUBMITTED")
MfaNotRun ==
  \/ LoggedInAtOnce
  \/ Logged("ALREADY_LOGGED_IN")
  \/ Logged("MFA_REQUIRED_BUT_SKIPPED")

C21_ExitCodeSignalsFailure ==
  (script = "att_download_bills" /\ pc = "exited" /\ all_saved < accounts)
    => exitCode # 0

\* C22: a login run that ends inside get_credentials (the secret is absent
\* or incomplete) has printed the setup instructions and exits with code 1,
\* with the code file not deleted, no status written and the browser not
\* contacted.
C22_CredentialsFailFast ==
  (script \in {"att", "certify"} /\ pc = "exited" /\ browserOps = {})
    => /\ setupPrinted
       /\ exitCode = 1
       /\ statusLog = <<>>
       /\ fileOrigin # "unlinked"

\* C23: LOGGED_IN is absorbing: it is the last status token a login run
\* writes, and a run that wrote it returns True from login().
C23_LoggedInAbsorbing ==
  \A i \in 1..Len(statusLog) :
    statusLog[i] = "LOGGED_IN"
      => /\ i = Len(statusLog)
         /\ pc \in {"main", "exited"} => result = "True"

\* C24: a script run that attached to the browser has detached from it
\* (pw.stop) when the process ends, on every exit path; a login run has
\* called pw.stop exactly once.
C24_DetachOnEveryPath ==
  (pc = "exited" /\ "connect_over_cdp" \in browserOps)
    => /\ "stop" \in browserOps
       /\ script \in {"att", "certify"} => pwStops = 1

\* C25: download_all_bills_for_current_account terminates for every site
\* with finitely many bill pages, also when every page has a Next link, and
\* no page is processed twice: a page is processed only when its first bill
\* was not seen before.
C25_PageLoopTerminates ==
  /\ <>(pc = "pg_done")
  /\ [](\A i, j \in 1..Len(processed) : processed[i] = processed[j] => i = j)
  /\ [][processed' # processed => billPages[curPage].rows[1] \notin seen_bills]_vars

C25_Witness ==
  /\ pc = "pg_done"
  /\ \A q \in Pages : billPages[q].next # 0 /\ Len(billPages[q].rows) > 0
  /\ Len(processed) = MaxPages
  /\ billPages[curPage].rows[1] \in seen_bills

\* C26: in cmd_full the report opened by the adjust and submit steps is the
\* report the create-from-wallet step of the same run recorded in
\* last_report_id.txt, whatever the command line, --report-id included.
C26_FullUsesCreatedReport ==
  args.command = "full" =>
    \A id \in {"R1", "R2"} : Called(ReportPage(id)) => id = lastReportId

\* C27: adjust and submit, run without --report-id while last_report_id.txt
\* is absent, empty or holds "unknown", return False without connecting to
\* the browser, and main() exits with code 1 through sys.exit.
C27_NoReportIdReturnsFalse ==
  ( /\ args.command \in {"adjust", "submit"} /\ args.report_id = ""
    /\ lastReportId \in {"absent", "", "unknown"}
    /\ pc = "exited" )
    => success = "False" /\ exitCode = 1 /\ browserOps = {}

\* C28: whatever the external actor does to the code file during the wait
\* loop, the loop does not raise and the run writes no error status because
\* of the code file other than ERROR_MFA_TIMEOUT: a file that disappears
\* between exists() and read_text() counts as not yet available.
C28_VanishedFileIsNotAnError ==
  /\ loop # "raised"
  /\ ~Logged("ERROR_FileNotFoundError")

\* C29: in cmd_create_from_wallet the per-month totals and the total count
\* only the expenses that were saved: the amount of an item is added to
\* monthly_totals and to total only in a step that clicks the Save control.
C29_TotalsCountSavedOnly ==
  [][(pc = "cw_item" /\ (monthly_totals' # monthly_totals \/ total' # total))
       => saves' = saves + 1]_vars

\* C30: the month keys of the offsets 0..months_back-1 are pairwise
\* different: whenever cmd_create_from_wallet starts a month offset, its
\* month key has no entry in monthly_totals yet.
C30_DistinctMonths ==
  [][(pc = "cw_month" /\ pc' = "cw_item")
       => month_key' \notin DOMAIN monthly_totals]_vars
====
